---- MODULE Spec2Model ----
(***************************************************************************)
(* State-machine model of the spot-ui client: the session kept by App      *)
(* (App.jsx), the callback boundary (Callback.jsx), the route guard of     *)
(* App's <Routes>, and the Profile view (Profile.jsx) with its aggregator  *)
(* fetchProfileData and its on-demand detail fetchers.                     *)
(*                                                                         *)
(* One step of the model is one thing the JavaScript event loop runs to    *)
(* completion: a page load with its first render, the flush of the mount   *)
(* effects, a click handler, a history traversal, or the continuation of   *)
(* an async function after one await.  State updates of one such step are  *)
(* batched by React 18 and rendered together, so the render that follows   *)
(* them is part of the step.                                               *)
(***************************************************************************)
EXTENDS Integers, Sequences, FiniteSets, TLC

\* ---------------------------------------------------------------- bounds
MaxItems == 2        \* longest top-artists / top-tracks page the upstream returns
MaxDetailReqs == 2   \* detail requests one Profile instance issues

\* ---------------------------------------------------------------- values
null == "null"       \* JavaScript null of a string-valued slot (absent key, no token)
None == <<>>         \* JavaScript null of an object-valued slot

Tokens == {"t1", "t2"}
StoreValues == Tokens \cup {null, ""}     \* localStorage.getItem('spotify_access_token')
Params == Tokens \cup {null, ""}          \* searchParams.get('token')

ArtistIds == {"a1"}
TrackIds == {"k1", "k2"}

Truthy(s) == s # null /\ s # ""

Range(s) == {s[i] : i \in 1..Len(s)}

\* The sequences of at most n distinct elements of S (a page of a top list
\* names an entity once).
RECURSIVE SeqsUpTo(_, _)
SeqsUpTo(S, n) ==
    IF n = 0 THEN {<<>>}
    ELSE LET shorter == SeqsUpTo(S, n - 1)
         IN shorter \cup UNION {{Append(s, x) : x \in S \ Range(s)} :
                                       s \in {t \in shorter : Len(t) = n - 1}}

\* Bodies of the two list endpoints: { items: [...] } or a body without items.
ListBodies(Ids) ==
    {[hasItems |-> TRUE, items |-> l] : l \in SeqsUpTo(Ids, MaxItems)}
        \cup {[hasItems |-> FALSE, items |-> <<>>]}

\* How a fetch settles: 2xx with a parsable body, a non-success status, a
\* rejected fetch (network error), or 2xx whose body response.json() rejects.
Outcomes == {"ok", "status", "neterr", "badjson"}
\* On a non-success status a detail fetcher reads errorData.error, which the
\* body may lack ("statusNoMsg"); "badjson" is a body response.json() rejects,
\* after either status.
DetailOutcomes == {"ok", "status", "statusNoMsg", "neterr", "badjson"}

URLs == {[path |-> "/", token |-> null], [path |-> "/profile", token |-> null]}
            \cup {[path |-> "/callback", token |-> p] : p \in Params}

VARIABLES
    localStorage,     \* value of the key 'spotify_access_token'
    isAuthenticated,  \* App state
    accessToken,      \* App state
    location,         \* the Router's current location
    mounted,          \* the route element rendered: Home, Callback, Navigate, Profile
    pc,               \* "effects": the first render's mount effects are pending
    profile, topArtists, topTracks, loading, error, selectedArtist, selectedTrack,
    agg,              \* the fetchProfileData run of the mounted Profile
    detailReqs,       \* detail requests of the mounted Profile, in issue order
    orphans,          \* the observed async run of an unmounted Profile instance
    lastOp            \* history: the step taken last, and what held before it

sessionVars == <<localStorage, isAuthenticated, accessToken>>
routeVars == <<location, mounted, pc>>
profileVars == <<profile, topArtists, topTracks, loading, error, selectedArtist, selectedTrack>>
taskVars == <<agg, detailReqs, orphans>>
vars == <<sessionVars, routeVars, profileVars, taskVars, lastOp>>


\* ------------------------------------------------- App.jsx: session state
\* A session value: the stored token and App's two state cells.
Session == [store |-> localStorage, auth |-> isAuthenticated, token |-> accessToken]

\* useState(false), useState(null): the state of the first render.
AppInitialState(store) == [store |-> store, auth |-> FALSE, token |-> null]

\* Faulty variant: the effect adopts the token and forgets the flag.
AppMountEffect_NoFlag(s) ==
    IF Truthy(s.store) THEN [s EXCEPT !.token = s.store] ELSE s

\* App's mount effect: read the store, adopt a truthy token.
AppMountEffect(s) ==
    IF Truthy(s.store) THEN [s EXCEPT !.token = s.store, !.auth = TRUE] ELSE s

\* Faulty variant: logout that leaves the token in App's state.
handleLogout_KeepToken(s) == [store |-> null, auth |-> FALSE, token |-> s.token]

\* Faulty variant: logout that leaves the stored token behind.
handleLogout_KeepStore(s) == [store |-> s.store, auth |-> FALSE, token |-> null]

handleLogout(s) == [store |-> null, auth |-> FALSE, token |-> null]

\* Faulty variant: the token reaches App's state and is not persisted.
handleAuthSuccess_NoPersist(s, token) == [store |-> s.store, auth |-> TRUE, token |-> token]

handleAuthSuccess(s, token) == [store |-> token, auth |-> TRUE, token |-> token]

\* Faulty variant: /profile rendered without looking at the session.
RouteElement_NoGuard(path, auth) ==
    CASE path = "/" -> "Home"
      [] path = "/callback" -> "Callback"
      [] path = "/profile" -> "Profile"

\* The element <Routes> renders for a path.
RouteElement(path, auth) ==
    CASE path = "/" -> "Home"
      [] path = "/callback" -> "Callback"
      [] path = "/profile" -> IF auth THEN "Profile" ELSE "Navigate"

\* <Navigate to="/" replace />: its effect replaces the location by "/".
NavigateEffect(path, auth) ==
    IF RouteElement(path, auth) = "Navigate" THEN "/" ELSE path

\* ------------------------------------------- Callback.jsx: callback boundary
\* Faulty variant: the parameter is ingested without the truthiness test.
CallbackEffect_NoTest(s, param) ==
    [sess |-> handleAuthSuccess(s, param), nav |-> "/profile"]

\* Callback's effect: a truthy token parameter is handed to onAuthSuccess and
\* the router is sent to /profile; anything else is sent to "/".
CallbackEffect(s, param) ==
    IF Truthy(param)
    THEN [sess |-> handleAuthSuccess(s, param), nav |-> "/profile"]
    ELSE [sess |-> s, nav |-> "/"]

\* Faulty variant: the guard is evaluated on the session as App's read of the
\* store leaves it.
ChildEffect_ReadFirst(url, s) ==
    CASE RouteElement(url.path, AppMountEffect(s).auth) = "Callback" ->
            CallbackEffect(s, url.token)
      [] RouteElement(url.path, AppMountEffect(s).auth) = "Navigate" ->
            [sess |-> s, nav |-> "/"]
      [] OTHER -> [sess |-> s, nav |-> url.path]

\* The effect of the element mounted at `url`, run on session s: where the
\* router stands afterwards and the session it leaves.
ChildEffect(url, s) ==
    CASE RouteElement(url.path, s.auth) = "Callback" -> CallbackEffect(s, url.token)
      [] RouteElement(url.path, s.auth) = "Navigate" -> [sess |-> s, nav |-> "/"]
      [] OTHER -> [sess |-> s, nav |-> url.path]

\* --------------------------------------------------- Profile.jsx: the view
\* What Profile renders: the loading screen, the error screen (message and
\* logout button), or the profile with its lists and modals.
ViewState(isLoading, err) ==
    IF isLoading THEN "loading"
    ELSE IF err # None THEN "error"
    ELSE "ready"

FailedProfileMsg == <<"Failed to fetch profile data">>
NetworkMsg == <<"Failed to fetch">>          \* message of a rejected fetch
JsonMsg == <<"Unexpected token">>            \* message of a rejected response.json()

\* err.message of what the aggregator's try block throws for an outcome.
ThrownMsg(outcome) ==
    CASE outcome = "neterr" -> NetworkMsg
      [] outcome = "badjson" -> JsonMsg
      [] OTHER -> FailedProfileMsg

ProfileOf(token) == <<"profile", token>>     \* body of /api/user for a credential
DetailRecord(kind, id) == <<kind, id>>       \* body of /api/artist/{id}, /api/song/{id}

\* Faulty variant: the items are taken in reverse order.
ItemsOrEmpty_Reversed(body) ==
    [i \in 1..Len(body.items) |-> body.items[Len(body.items) + 1 - i]]

\* artistsData.items || []
ItemsOrEmpty(body) == IF body.hasItems THEN body.items ELSE <<>>

\* ------------------------------------- Profile.jsx: fetchProfileData
\* The run of fetchProfileData: where it is suspended, the credential of its
\* closure, and (history) the endpoints it has called and how they settled.
NoAgg == [pc |-> "none", token |-> null, issued |-> {}, primary |-> "none",
          artists |-> "none", tracks |-> "none",
          artistsItems |-> <<>>, tracksItems |-> <<>>]

\* useState initial values of a Profile instance (also kept while none is mounted).
ProfileInitialState ==
    [profile |-> None, topArtists |-> <<>>, topTracks |-> <<>>, loading |-> TRUE,
     error |-> None, selectedArtist |-> None, selectedTrack |-> None]

\* Faulty variant: the three fetches are issued together.
StartedAgg_Parallel(token) ==
    IF Truthy(token)
    THEN [NoAgg EXCEPT !.pc = "awaitProfile", !.token = token,
                       !.issued = {"user", "top-artists", "top-tracks"}]
    ELSE NoAgg

\* Profile's effect: with a truthy credential fetchProfileData runs up to its
\* first await (setLoading(true), the profile fetch in flight).
StartedAgg(token) ==
    IF Truthy(token)
    THEN [NoAgg EXCEPT !.pc = "awaitProfile", !.token = token, !.issued = {"user"}]
    ELSE NoAgg

\* Faulty variant: a failed profile fetch does not throw: the run goes on.
AggNextPc_NoThrow(at, outcome) ==
    CASE at = "awaitProfile" -> "awaitArtists"
      [] at = "awaitArtists" ->
            IF outcome \in {"ok", "status"} THEN "awaitTracks" ELSE "done"
      [] at = "awaitTracks" -> "done"

\* Control flow of fetchProfileData after the await at `at` settles with
\* `outcome`: the next await, or "done" once the finally block has run.
AggNextPc(at, outcome) ==
    CASE at = "awaitProfile" -> IF outcome = "ok" THEN "awaitArtists" ELSE "done"
      [] at = "awaitArtists" ->
            IF outcome \in {"ok", "status"} THEN "awaitTracks" ELSE "done"
      [] at = "awaitTracks" -> "done"

\* The endpoint fetchProfileData calls on reaching an await.
EndpointOf(at) ==
    CASE at = "awaitProfile" -> {"user"}
      [] at = "awaitArtists" -> {"top-artists"}
      [] at = "awaitTracks" -> {"top-tracks"}
      [] OTHER -> {}

\* Faulty variant: no finally block, the flag is cleared after the last
\* statement of the try block only.
AggWrites_NoFinally(a, v, outcome, body) ==
    LET thrown ==
            \/ a.pc = "awaitProfile" /\ outcome # "ok"
            \/ a.pc \in {"awaitArtists", "awaitTracks"} /\ outcome \in {"neterr", "badjson"}
        v1 == CASE a.pc = "awaitProfile" /\ outcome = "ok" ->
                      [v EXCEPT !.profile = ProfileOf(a.token)]
                [] a.pc = "awaitArtists" /\ outcome = "ok" ->
                      [v EXCEPT !.topArtists = ItemsOrEmpty(body)]
                [] a.pc = "awaitTracks" /\ outcome = "ok" ->
                      [v EXCEPT !.topTracks = ItemsOrEmpty(body)]
                [] OTHER -> v
    IN IF thrown THEN [v1 EXCEPT !.error = ThrownMsg(outcome)]
       ELSE IF AggNextPc(a.pc, outcome) = "done" THEN [v1 EXCEPT !.loading = FALSE]
       ELSE v1

\* Faulty variant: the loading flag is cleared as soon as the profile is in.
AggWrites_EarlyReady(a, v, outcome, body) ==
    LET thrown ==
            \/ a.pc = "awaitProfile" /\ outcome # "ok"
            \/ a.pc \in {"awaitArtists", "awaitTracks"} /\ outcome \in {"neterr", "badjson"}
        v1 == CASE a.pc = "awaitProfile" /\ outcome = "ok" ->
                      [v EXCEPT !.profile = ProfileOf(a.token), !.loading = FALSE]
                [] a.pc = "awaitArtists" /\ outcome = "ok" ->
                      [v EXCEPT !.topArtists = ItemsOrEmpty(body)]
                [] a.pc = "awaitTracks" /\ outcome = "ok" ->
                      [v EXCEPT !.topTracks = ItemsOrEmpty(body)]
                [] OTHER -> v
        v2 == IF thrown THEN [v1 EXCEPT !.error = ThrownMsg(outcome)] ELSE v1
    IN IF AggNextPc(a.pc, outcome) = "done" THEN [v2 EXCEPT !.loading = FALSE] ELSE v2

\* The state updates of fetchProfileData between the await at a.pc and the
\* next one, applied to the view cells v of its Profile instance.
AggWrites(a, v, outcome, body) ==
    LET thrown ==
            \/ a.pc = "awaitProfile" /\ outcome # "ok"
            \/ a.pc \in {"awaitArtists", "awaitTracks"} /\ outcome \in {"neterr", "badjson"}
        v1 == CASE a.pc = "awaitProfile" /\ outcome = "ok" ->
                      [v EXCEPT !.profile = ProfileOf(a.token)]
                [] a.pc = "awaitArtists" /\ outcome = "ok" ->
                      [v EXCEPT !.topArtists = ItemsOrEmpty(body)]
                [] a.pc = "awaitTracks" /\ outcome = "ok" ->
                      [v EXCEPT !.topTracks = ItemsOrEmpty(body)]
                [] OTHER -> v
        v2 == IF thrown THEN [v1 EXCEPT !.error = ThrownMsg(outcome)] ELSE v1
    IN IF AggNextPc(a.pc, outcome) = "done" THEN [v2 EXCEPT !.loading = FALSE] ELSE v2

\* The run itself after that step.
AggAdvance(a, outcome, body) ==
    LET next == AggNextPc(a.pc, outcome)
        items == IF outcome = "ok" THEN body.items ELSE <<>>   \* as the upstream sent them
    IN [a EXCEPT !.pc = next,
                 !.issued = @ \cup EndpointOf(next),
                 !.primary = IF a.pc = "awaitProfile" THEN outcome ELSE @,
                 !.artists = IF a.pc = "awaitArtists" THEN outcome ELSE @,
                 !.tracks = IF a.pc = "awaitTracks" THEN outcome ELSE @,
                 !.artistsItems = IF a.pc = "awaitArtists" THEN items ELSE @,
                 !.tracksItems = IF a.pc = "awaitTracks" THEN items ELSE @]

\* ------------------------------------- Profile.jsx: detail fetchers
UnknownError == "Unknown error"

DetailFailurePrefix(kind) ==
    IF kind = "artist" THEN "Failed to fetch artist details: "
    ELSE "Failed to fetch track details: "

\* The message fetchArtistDetails / fetchTrackDetails hands to setError:
\* errorData.error (or 'Unknown error') after a non-success status, the
\* message of what was thrown otherwise.
DetailErrorMsg(kind, outcome) ==
    CASE outcome = "status" -> <<DetailFailurePrefix(kind), "Not found">>
      [] outcome = "statusNoMsg" -> <<DetailFailurePrefix(kind), UnknownError>>
      [] outcome = "neterr" -> <<"Network error: ">> \o NetworkMsg
      [] OTHER -> <<"Network error: ">> \o JsonMsg

\* The view cells after a detail fetch of the mounted instance settles.
DetailWrites(v, kind, id, outcome) ==
    IF outcome = "ok"
    THEN IF kind = "artist"
         THEN [v EXCEPT !.selectedArtist = DetailRecord(kind, id)]
         ELSE [v EXCEPT !.selectedTrack = DetailRecord(kind, id)]
    ELSE [v EXCEPT !.error = DetailErrorMsg(kind, outcome)]

\* Faulty variant: closing the artist modal leaves the record and the error.
closeArtistModal_KeepsAll(v) == v

closeArtistModal(v) == [v EXCEPT !.selectedArtist = None, !.error = None]
closeTrackModal(v) == [v EXCEPT !.selectedTrack = None, !.error = None]

\* ---------------------------------------------------------------- state
View ==
    [profile |-> profile, topArtists |-> topArtists, topTracks |-> topTracks,
     loading |-> loading, error |-> error,
     selectedArtist |-> selectedArtist, selectedTrack |-> selectedTrack]

SetView(v) ==
    /\ profile' = v.profile
    /\ topArtists' = v.topArtists
    /\ topTracks' = v.topTracks
    /\ loading' = v.loading
    /\ error' = v.error
    /\ selectedArtist' = v.selectedArtist
    /\ selectedTrack' = v.selectedTrack

SetSession(s) ==
    /\ localStorage' = s.store
    /\ isAuthenticated' = s.auth
    /\ accessToken' = s.token

\* What a step was asked to show: the token parameter the callback boundary
\* carried (null when it carried none), or the path of another destination.
Requested(url) == IF url.path = "/callback" THEN url.token ELSE url.path

CurrentView == IF mounted = "Profile" THEN ViewState(loading, error) ELSE "none"

\* History of a step: its name and argument, the entity id of the detail
\* fetch it settled ("-" for other steps), and what held before it.
DidFor(op, arg, id) ==
    lastOp' = [op |-> op, arg |-> arg, id |-> id,
               prevStore |-> localStorage, prevView |-> CurrentView]

Did(op, arg) == DidFor(op, arg, "-")

\* Async runs of the mounted Profile instance that are suspended at an await.
InFlight ==
    (IF agg.pc \in {"awaitProfile", "awaitArtists", "awaitTracks"}
     THEN {[fn |-> "fetchProfileData", pc |-> agg.pc, token |-> agg.token]} ELSE {})
    \cup {[fn |-> IF detailReqs[i].kind = "artist" THEN "fetchArtistDetails"
                  ELSE "fetchTrackDetails",
           pc |-> "await", token |-> agg.token] : i \in {j \in 1..Len(detailReqs) : detailReqs[j].status = "inflight"}}

\* The route element for (path, session) is rendered and its mount effect run.
\* A Profile instance that leaves the screen keeps its async runs going; they
\* hold the setters of the unmounted instance. One of them, any, is followed
\* from then on (all of them behave alike), until the next instance leaves.
Render(path, s) ==
    /\ mounted' = RouteElement(path, s.auth)
    /\ IF mounted = "Profile" /\ InFlight # {}
       THEN \E o \in InFlight : orphans' = {o}
       ELSE orphans' = orphans
    /\ detailReqs' = <<>>
    /\ SetView(ProfileInitialState)
    /\ agg' = IF RouteElement(path, s.auth) = "Profile" THEN StartedAgg(s.token) ELSE NoAgg


\* ---------------------------------------------------------------- actions
\* A document load at `url`: the process starts, App is constructed and
\* rendered once with its initial state; localStorage is what the origin kept.
PageLoad(url, op) ==
    /\ SetSession(AppInitialState(localStorage))
    /\ location' = url
    /\ mounted' = RouteElement(url.path, AppInitialState(localStorage).auth)
    /\ pc' = "effects"
    /\ SetView(ProfileInitialState)
    /\ agg' = NoAgg
    /\ detailReqs' = <<>>
    /\ orphans' = {}
    /\ Did(op, url.path)

Init ==
    /\ localStorage \in StoreValues
    /\ isAuthenticated = FALSE
    /\ accessToken = null
    /\ location \in URLs
    /\ mounted = RouteElement(location.path, FALSE)
    /\ pc = "effects"
    /\ profile = None /\ topArtists = <<>> /\ topTracks = <<>> /\ loading = TRUE
    /\ error = None /\ selectedArtist = None /\ selectedTrack = None
    /\ agg = NoAgg
    /\ detailReqs = <<>>
    /\ orphans = {}
    /\ lastOp = [op |-> "LoadPage", arg |-> location.path, id |-> "-",
                 prevStore |-> localStorage, prevView |-> "none"]

\* The user reloads, or opens one of the application's URLs.
LoadPage(url) ==
    /\ pc = "idle"
    /\ PageLoad(url, "LoadPage")

\* Home's login button: handleLogin leaves the document; the backend's
\* redirect comes back at the callback boundary, with or without a token.
Login(param) ==
    /\ pc = "idle"
    /\ mounted = "Home"
    /\ ~isAuthenticated
    /\ PageLoad([path |-> "/callback", token |-> param], "Login")

\* Home's <a href="/profile">: a document load of /profile.
ViewProfileLink ==
    /\ pc = "idle"
    /\ mounted = "Home"
    /\ isAuthenticated
    /\ PageLoad([path |-> "/profile", token |-> null], "ViewProfileLink")

\* The mount effects of the first render, children before parents: the
\* effect of the route element (Callback or Navigate), then App's effect;
\* the batched updates are rendered and the new element's effect runs.
RunEffects ==
    /\ pc = "effects"
    /\ LET c == ChildEffect(location, Session)
           s == AppMountEffect(c.sess)
           path == NavigateEffect(c.nav, s.auth)
       IN /\ SetSession(s)
          /\ location' = [path |-> path, token |-> null]
          /\ Render(path, s)
    /\ pc' = "idle"
    /\ Did("RunEffects", Requested(location))

\* A history traversal inside the document (popstate) to `url`: the route
\* element of url is rendered, its effect runs, and the result is rendered.
PopState(url) ==
    /\ pc = "idle"
    /\ url # location
    /\ LET c == ChildEffect(url, Session)
           path == NavigateEffect(c.nav, c.sess.auth)
       IN /\ SetSession(c.sess)
          /\ location' = [path |-> path, token |-> null]
          /\ Render(path, c.sess)
    /\ pc' = pc
    /\ Did("PopState", Requested(url))

\* The logout button, rendered by the error screen and by the ready screen.
Logout ==
    /\ pc = "idle"
    /\ mounted = "Profile"
    /\ ViewState(loading, error) \in {"error", "ready"}
    /\ LET s == handleLogout(Session)
           path == NavigateEffect(location.path, s.auth)
       IN /\ SetSession(s)
          /\ location' = [path |-> path, token |-> null]
          /\ Render(path, s)
    /\ pc' = pc
    /\ Did("Logout", "-")

\* The await of fetchProfileData at `at` settles for the mounted instance.
AggSettles(at, outcome, body) ==
    /\ pc = "idle"
    /\ mounted = "Profile"
    /\ agg.pc = at
    /\ SetView(AggWrites(agg, View, outcome, body))
    /\ agg' = AggAdvance(agg, outcome, body)
    /\ UNCHANGED <<sessionVars, routeVars, detailReqs, orphans>>

NoBody == [hasItems |-> FALSE, items |-> <<>>]

ProfileResponse(outcome) ==
    /\ AggSettles("awaitProfile", outcome, NoBody)
    /\ Did("ProfileResponse", outcome)

ArtistsResponse(outcome, body) ==
    /\ AggSettles("awaitArtists", outcome, body)
    /\ Did("ArtistsResponse", outcome)

TracksResponse(outcome, body) ==
    /\ AggSettles("awaitTracks", outcome, body)
    /\ Did("TracksResponse", outcome)

\* A click on a list item: the detail fetch for its id is issued.
RequestDetail(kind, id) ==
    /\ pc = "idle"
    /\ mounted = "Profile"
    /\ ViewState(loading, error) = "ready"
    /\ Len(detailReqs) < MaxDetailReqs
    /\ detailReqs' = Append(detailReqs,
            [kind |-> kind, id |-> id, status |-> "inflight",
             concurrent |-> \E i \in 1..Len(detailReqs) :
                                /\ detailReqs[i].kind = kind
                                /\ detailReqs[i].status = "inflight",
             crossed |-> \E i \in 1..Len(detailReqs) :
                                /\ detailReqs[i].kind # kind
                                /\ detailReqs[i].status = "inflight"])
    /\ UNCHANGED <<sessionVars, routeVars, profileVars, agg, orphans>>

fetchArtistDetails(id) ==
    /\ id \in Range(topArtists)
    /\ RequestDetail("artist", id)
    /\ Did("fetchArtistDetails", id)

fetchTrackDetails(id) ==
    /\ id \in Range(topTracks)
    /\ RequestDetail("track", id)
    /\ Did("fetchTrackDetails", id)

\* The i-th detail fetch of the mounted instance, one of `kind`, settles.
DetailResponse(kind, i, outcome) ==
    /\ pc = "idle"
    /\ mounted = "Profile"
    /\ i \in 1..Len(detailReqs)
    /\ detailReqs[i].kind = kind
    /\ detailReqs[i].status = "inflight"
    /\ SetView(DetailWrites(View, detailReqs[i].kind, detailReqs[i].id, outcome))
    /\ detailReqs' = [detailReqs EXCEPT ![i].status = IF outcome = "ok" THEN "ok" ELSE "failed"]
    /\ UNCHANGED <<sessionVars, routeVars, agg, orphans>>

ArtistDetailsResponse(i, outcome) ==
    /\ DetailResponse("artist", i, outcome)
    /\ DidFor("ArtistDetailsResponse", outcome, detailReqs[i].id)

TrackDetailsResponse(i, outcome) ==
    /\ DetailResponse("track", i, outcome)
    /\ DidFor("TrackDetailsResponse", outcome, detailReqs[i].id)

\* The overlay or the close button of an open modal.
CloseArtistModal ==
    /\ pc = "idle"
    /\ mounted = "Profile"
    /\ ViewState(loading, error) = "ready"
    /\ selectedArtist # None
    /\ SetView(closeArtistModal(View))
    /\ UNCHANGED <<sessionVars, routeVars, taskVars>>
    /\ Did("CloseArtistModal", "-")

CloseTrackModal ==
    /\ pc = "idle"
    /\ mounted = "Profile"
    /\ ViewState(loading, error) = "ready"
    /\ selectedTrack # None
    /\ SetView(closeTrackModal(View))
    /\ UNCHANGED <<sessionVars, routeVars, taskVars>>
    /\ Did("CloseTrackModal", "-")

\* Faulty variant: the setters of a run whose instance is gone reach the
\* Profile on screen.
OrphanSettles_Applies(o, outcome) ==
    /\ pc = "idle"
    /\ o \in orphans
    /\ orphans' = (orphans \ {o}) \cup
            (IF o.fn = "fetchProfileData" /\ AggNextPc(o.pc, outcome) # "done"
             THEN {[o EXCEPT !.pc = AggNextPc(o.pc, outcome)]} ELSE {})
    /\ IF mounted = "Profile"
       THEN SetView([View EXCEPT !.profile = ProfileOf(o.token), !.loading = FALSE])
       ELSE UNCHANGED profileVars
    /\ UNCHANGED <<sessionVars, routeVars, agg, detailReqs>>
    /\ Did("OrphanSettles", "-")

\* An await of a run whose Profile instance is gone settles: the run goes on
\* (fetchProfileData issues its next fetch), its setters change nothing.
OrphanSettles(o, outcome) ==
    /\ pc = "idle"
    /\ o \in orphans
    /\ orphans' = (orphans \ {o}) \cup
            (IF o.fn = "fetchProfileData" /\ AggNextPc(o.pc, outcome) # "done"
             THEN {[o EXCEPT !.pc = AggNextPc(o.pc, outcome)]} ELSE {})
    /\ UNCHANGED <<sessionVars, routeVars, profileVars, agg, detailReqs>>
    /\ Did("OrphanSettles", "-")

Next ==
    \/ \E url \in URLs : LoadPage(url)
    \/ \E param \in Params : Login(param)
    \/ ViewProfileLink
    \/ RunEffects
    \/ \E url \in URLs : PopState(url)
    \/ Logout
    \/ \E outcome \in Outcomes : ProfileResponse(outcome)
    \/ \E outcome \in Outcomes, body \in ListBodies(ArtistIds) : ArtistsResponse(outcome, body)
    \/ \E outcome \in Outcomes, body \in ListBodies(TrackIds) : TracksResponse(outcome, body)
    \/ \E id \in ArtistIds : fetchArtistDetails(id)
    \/ \E id \in TrackIds : fetchTrackDetails(id)
    \/ \E i \in 1..MaxDetailReqs, outcome \in DetailOutcomes : ArtistDetailsResponse(i, outcome)
    \/ \E i \in 1..MaxDetailReqs, outcome \in DetailOutcomes : TrackDetailsResponse(i, outcome)
    \/ CloseArtistModal
    \/ CloseTrackModal
    \/ \E o \in orphans, outcome \in Outcomes : OrphanSettles(o, outcome)

Spec == Init /\ [][Next]_vars


\* The behaviours in which every fetch issued by the Profile on screen
\* resolves: an await of fetchProfileData that stays pending is settled.
FairSpec ==
    /\ Spec
    /\ WF_vars(\E outcome \in Outcomes : ProfileResponse(outcome))
    /\ WF_vars(\E outcome \in Outcomes, body \in ListBodies(ArtistIds) :
                    ArtistsResponse(outcome, body))
    /\ WF_vars(\E outcome \in Outcomes, body \in ListBodies(TrackIds) :
                    TracksResponse(outcome, body))

\* ---------------------------------------------------------------- claims
\* The step taken last ran Callback's effect (at startup or after a traversal).
CallbackRan == lastOp.op \in {"RunEffects", "PopState"} /\ lastOp.arg \in Params

\* The startup read as the store stood when the process started.
StartupFollowsStore ==
    IF Truthy(lastOp.prevStore)
    THEN isAuthenticated /\ accessToken = lastOp.prevStore
    ELSE ~isAuthenticated /\ accessToken = null

\* C1 (as stated): once the startup effects have run, the session is
\* authenticated with the token TokenStore held at process start if that was
\* non-empty, and unauthenticated if it was empty or absent.
C1_StartupFromStore ==
    lastOp.op = "RunEffects" => StartupFollowsStore

\* C1 (amended): the same, except when the process starts at the callback
\* boundary carrying a non-empty token: Callback's effect runs before App's
\* read, and the session is authenticated with the callback's token.
C1_StartupFromStoreOrCallback ==
    lastOp.op = "RunEffects" =>
        IF lastOp.arg \in Tokens
        THEN isAuthenticated /\ accessToken = lastOp.arg
        ELSE StartupFollowsStore

C1_Witness ==
    /\ lastOp.op = "RunEffects"
    /\ lastOp.arg = "/"
    /\ lastOp.prevStore = "t1"
    /\ isAuthenticated
    /\ accessToken = "t1"

\* C2: the Profile view is mounted only while isAuthenticated is true; a
\* request for /profile in an unauthenticated session ends on the landing
\* destination, and the first render of /profile shows the redirect.
C2_RouteGuard ==
    /\ mounted = "Profile" => isAuthenticated
    /\ (~isAuthenticated /\ location.path = "/profile") => mounted = "Navigate" /\ pc = "effects"
    /\ (lastOp.op = "PopState" /\ lastOp.arg = "/profile" /\ ~isAuthenticated) =>
            location.path = "/" /\ mounted = "Home"

C2_Witness ==
    /\ lastOp.op = "PopState"
    /\ lastOp.arg = "/profile"
    /\ ~isAuthenticated
    /\ mounted = "Home"
    /\ localStorage = null

\* C3: after the callback boundary was reached with a non-empty token t the
\* session is authenticated, the stored and the in-memory token are t, and
\* the Profile view is mounted at /profile with t as its credential.
C3_CallbackIngests ==
    (CallbackRan /\ lastOp.arg \in Tokens) =>
        /\ isAuthenticated
        /\ localStorage = lastOp.arg
        /\ accessToken = lastOp.arg
        /\ location.path = "/profile"
        /\ mounted = "Profile"
        /\ agg.token = lastOp.arg

C3_Witness ==
    /\ CallbackRan
    /\ lastOp.arg = "t2"
    /\ lastOp.prevStore = "t1"
    /\ localStorage = "t2"
    /\ mounted = "Profile"

\* C4: after the callback boundary was reached without a token parameter, or
\* with an empty one, TokenStore holds what it held before and the landing
\* destination is shown.
C4_CallbackFailureKeepsStore ==
    (CallbackRan /\ ~Truthy(lastOp.arg)) =>
        /\ localStorage = lastOp.prevStore
        /\ location.path = "/"
        /\ mounted = "Home"

C4_Witness ==
    /\ CallbackRan
    /\ lastOp.arg = ""
    /\ lastOp.prevStore = "t1"
    /\ localStorage = "t1"
    /\ mounted = "Home"

\* C5: after logout TokenStore is cleared, the in-memory token is dropped and
\* the session is unauthenticated, whatever held before.
C5_LogoutClears ==
    lastOp.op = "Logout" =>
        /\ localStorage = null
        /\ accessToken = null
        /\ ~isAuthenticated
        /\ mounted = "Home"

\* Logout pressed while a detail fetch was in flight.
C5_Witness ==
    /\ lastOp.op = "Logout"
    /\ lastOp.prevStore = "t1"
    /\ lastOp.prevView = "ready"
    /\ \E o \in orphans : o.fn = "fetchArtistDetails"
    /\ localStorage = null

\* C6: once the profile fetch has failed the view shows the error screen with
\* the failure's message, and the run has called no endpoint but /api/user.
C6_PrimaryFailureIsFatal ==
    (mounted = "Profile" /\ agg.primary \notin {"none", "ok"}) =>
        /\ agg.pc = "done"
        /\ ViewState(loading, error) = "error"
        /\ error = ThrownMsg(agg.primary)
        /\ agg.issued = {"user"}

C6_Witness ==
    /\ mounted = "Profile"
    /\ agg.primary = "status"
    /\ error = FailedProfileMsg
    /\ ~loading

NoDetailFailed == \A i \in 1..Len(detailReqs) : detailReqs[i].status # "failed"

\* C7 (as stated): after a successful profile fetch, a top-artists or
\* top-tracks fetch that fails by non-success status or by network error
\* leaves the view ready with that list empty.
C7_SecondaryFailureNotFatal ==
    (/\ mounted = "Profile"
     /\ agg.pc = "done"
     /\ agg.primary = "ok"
     /\ agg.artists \in {"ok", "status", "neterr"}
     /\ agg.tracks \in {"none", "ok", "status", "neterr"}
     /\ NoDetailFailed) =>
        /\ ViewState(loading, error) = "ready"
        /\ agg.artists # "ok" => topArtists = <<>>
        /\ agg.tracks # "ok" => topTracks = <<>>

\* C8: profile fetched, one list endpoint answering a non-success status and
\* the other answering success: the view is ready (until a detail fetch
\* fails), the failed list is empty and the other holds the returned items in
\* the order the upstream sent them.
C8_OneListDegrades ==
    (mounted = "Profile" /\ agg.pc = "done" /\ agg.primary = "ok") =>
        /\ (agg.artists = "status" /\ agg.tracks = "ok") =>
                /\ topArtists = <<>>
                /\ topTracks = agg.tracksItems
                /\ NoDetailFailed => ViewState(loading, error) = "ready"
        /\ (agg.artists = "ok" /\ agg.tracks = "status") =>
                /\ topTracks = <<>>
                /\ topArtists = agg.artistsItems
                /\ NoDetailFailed => ViewState(loading, error) = "ready"

C8_Witness ==
    /\ mounted = "Profile"
    /\ agg.pc = "done"
    /\ agg.artists = "status"
    /\ agg.tracks = "ok"
    /\ topArtists = <<>>
    /\ topTracks = <<"k2", "k1">>
    /\ ViewState(loading, error) = "ready"

\* C9 (as stated): a detail fetch that fails while the view is ready leaves
\* the view ready, its summary lists on screen.
C9_DetailFailureKeepsReady ==
    (/\ lastOp.op \in {"ArtistDetailsResponse", "TrackDetailsResponse"}
     /\ lastOp.arg # "ok"
     /\ lastOp.prevView = "ready") =>
        ViewState(loading, error) = "ready"

\* The request of `kind` issued last by the mounted instance (0: none).
LastOfKind(kind) ==
    LET of == {i \in 1..Len(detailReqs) : detailReqs[i].kind = kind}
    IN IF of = {} THEN 0 ELSE CHOOSE i \in of : \A j \in of : j <= i

Selected(kind) == IF kind = "artist" THEN selectedArtist ELSE selectedTrack

\* C10 (as stated): when an entity was requested while an earlier request of
\* its kind was unresolved, and all requests of that kind have then resolved
\* successfully, the view shows the detail of the entity requested last.
C10_LastRequestWins ==
    \A kind \in {"artist", "track"} :
        LET last == LastOfKind(kind) IN
        (/\ mounted = "Profile"
         /\ lastOp.op = (IF kind = "artist" THEN "ArtistDetailsResponse"
                         ELSE "TrackDetailsResponse")
         /\ last # 0
         /\ detailReqs[last].concurrent
         /\ \A i \in 1..Len(detailReqs) :
                detailReqs[i].kind = kind => detailReqs[i].status = "ok") =>
            Selected(kind) = DetailRecord(kind, detailReqs[last].id)

\* C11: after a detail fetch for an id succeeds, the detail cell of its kind
\* holds the record of that entity; after closeArtistModal / closeTrackModal
\* the record of that kind is absent and no error is held, whatever error
\* value the handler found.
C11_DetailOpensAndCloses ==
    /\ (lastOp.op = "ArtistDetailsResponse" /\ lastOp.arg = "ok") =>
            selectedArtist = DetailRecord("artist", lastOp.id)
    /\ (lastOp.op = "TrackDetailsResponse" /\ lastOp.arg = "ok") =>
            selectedTrack = DetailRecord("track", lastOp.id)
    /\ lastOp.op = "CloseArtistModal" => (selectedArtist = None /\ error = None)
    /\ lastOp.op = "CloseTrackModal" => (selectedTrack = None /\ error = None)
    /\ \A kind \in {"artist", "track"}, outcome \in DetailOutcomes \ {"ok"} :
            LET v == [View EXCEPT !.error = DetailErrorMsg(kind, outcome)]
            IN /\ closeArtistModal(v).error = None
               /\ closeArtistModal(v).selectedArtist = None
               /\ closeTrackModal(v).error = None
               /\ closeTrackModal(v).selectedTrack = None

C11_Witness ==
    /\ lastOp.op = "CloseTrackModal"
    /\ \E i \in 1..Len(detailReqs) :
            /\ detailReqs[i] = [kind |-> "track", id |-> "k2", status |-> "ok",
                                concurrent |-> FALSE, crossed |-> FALSE]
    /\ selectedTrack = None
    /\ error = None

\* C12: a fetch result that resolves after the credential that issued it is
\* no longer the current one (logout, or a login with another token) is
\* discarded: it changes none of profile, lists, detail records, loading flag
\* and error of the view on screen; and every run of the Profile on screen
\* was issued under the current credential.
C12_StaleResultDiscarded ==
    /\ [](mounted = "Profile" => agg.token = accessToken)
    /\ [][(/\ lastOp'.op = "OrphanSettles"
           /\ \A o \in orphans : o.token # accessToken) =>
                UNCHANGED profileVars]_vars

C12_Witness ==
    /\ lastOp.op = "OrphanSettles"
    /\ orphans = {[fn |-> "fetchProfileData", pc |-> "awaitArtists", token |-> "t1"]}
    /\ accessToken = "t2"
    /\ mounted = "Profile"
    /\ agg.pc = "awaitProfile"
    /\ loading
    /\ profile = None

C14_SecondariesIndependent ==
    (mounted = "Profile" /\ agg.primary = "ok" /\ agg.pc = "done") =>
        {"top-artists", "top-tracks"} \subseteq agg.issued

\* C15: the profile fetch is issued and has resolved successfully before
\* top-artists or top-tracks is issued; while the profile fetch is in flight
\* no other fetch of the run has been issued.
C15_PrimaryPrecedesSecondary ==
    /\ (agg.issued \cap {"top-artists", "top-tracks"} # {}) =>
            ("user" \in agg.issued /\ agg.primary = "ok")
    /\ agg.pc = "awaitProfile" => agg.issued = {"user"}
    /\ agg.primary \notin {"none", "ok"} => agg.issued = {"user"}

C15_Witness ==
    /\ mounted = "Profile"
    /\ agg.pc = "awaitArtists"
    /\ agg.primary = "ok"
    /\ agg.issued = {"user", "top-artists"}
    /\ lastOp.op = "ProfileResponse"

\* C16: the session is authenticated exactly when the in-memory token is
\* non-empty, and then the in-memory token equals the stored one; the
\* callback with a token and logout each replace the flag, the in-memory
\* token and the stored token together.
C16_SessionInvariant ==
    /\ isAuthenticated <=> Truthy(accessToken)
    /\ isAuthenticated => accessToken = localStorage
    /\ (CallbackRan /\ lastOp.arg \in Tokens) =>
            (isAuthenticated /\ accessToken = lastOp.arg /\ localStorage = lastOp.arg)
    /\ lastOp.op = "Logout" =>
            (~isAuthenticated /\ accessToken = null /\ localStorage = null)

\* A running session under t2 taken over by a callback carrying t1.
C16_Witness ==
    /\ lastOp.op = "PopState"
    /\ lastOp.arg = "t1"
    /\ lastOp.prevStore = "t2"
    /\ lastOp.prevView # "none"
    /\ isAuthenticated
    /\ accessToken = "t1"
    /\ localStorage = "t1"

\* C17 (as stated, in the case it names): when an artist request and a track
\* request were in flight together, at most one detail record, artist or
\* track, is held afterwards.
C17_AtMostOneDetail ==
    (mounted = "Profile" /\ \E i \in 1..Len(detailReqs) : detailReqs[i].crossed) =>
        ~(selectedArtist # None /\ selectedTrack # None)

\* The render of Profile offers the logout button: the error screen and the
\* ready view have one, the loading screen has none.
LogoutOffered == mounted = "Profile" /\ ~loading

\* The render of Profile shows the summary lists, whose items are the only
\* way to select an entity.
ListsShown == mounted = "Profile" /\ ViewState(loading, error) = "ready"

\* C18 (as stated): after a failed profile fetch the logout action is
\* offered; after a failed detail fetch the summary lists are on screen, so
\* that the user can select again without logging out.
C18_FailuresOfferRecovery ==
    /\ (mounted = "Profile" /\ agg.pc = "done" /\ agg.primary \notin {"none", "ok"}) =>
            LogoutOffered
    /\ (/\ lastOp.op \in {"ArtistDetailsResponse", "TrackDetailsResponse"}
        /\ lastOp.arg # "ok") => ListsShown

\* C19 (as stated): after a detail view was closed, a step that is not a new
\* selection leaves the record of that kind absent, also the step in which a
\* detail fetch issued before the close resolves successfully.
C19_ClosedStaysClosed ==
    [][/\ (/\ lastOp.op = "CloseArtistModal"
           /\ lastOp'.op \notin {"fetchArtistDetails", "fetchTrackDetails"}) =>
                selectedArtist' = None
       /\ (/\ lastOp.op = "CloseTrackModal"
           /\ lastOp'.op \notin {"fetchArtistDetails", "fetchTrackDetails"}) =>
                selectedTrack' = None]_vars

\* The Profile on screen is a new instance that took the place of another
\* one in the step taken last (a traversal through the callback boundary).
InstanceReplaced == lastOp.op = "PopState" /\ lastOp.prevView # "none"

\* C20: when every issued fetch resolves, a mounted Profile with a non-empty
\* credential that is loading leaves loading (unless it leaves the screen or
\* is replaced first); a run that has ended, by its last statement or by a
\* thrown error, has cleared the loading flag, and the view is then ready or
\* shows an error.
C20_LoadingTerminates ==
    /\ [](mounted = "Profile" /\ agg.pc = "done" =>
            (~loading /\ ViewState(loading, error) \in {"ready", "error"}))
    /\ (mounted = "Profile" /\ Truthy(agg.token) /\ loading)
            ~> (~loading \/ mounted # "Profile" \/ InstanceReplaced)

\* A run ended by the error thrown for a failed top-tracks fetch.
C20_Witness ==
    /\ mounted = "Profile"
    /\ lastOp.op = "TracksResponse"
    /\ lastOp.arg = "badjson"
    /\ lastOp.prevView = "loading"
    /\ agg.pc = "done"
    /\ ~loading
    /\ ViewState(loading, error) = "error"

\* C21: a process started at /profile with a non-empty stored token renders
\* first with the session unauthenticated and without a token, so the guard
\* shows the redirect; once the effects of that render have run, the session
\* is authenticated with the stored token, the location is the landing
\* destination and Home is on screen, no Profile having been mounted.
C21_StartupAtProfileRedirects ==
    /\ (pc = "effects" /\ location.path = "/profile" /\ Truthy(localStorage)) =>
            /\ ~isAuthenticated
            /\ accessToken = null
            /\ mounted = "Navigate"
    /\ (lastOp.op = "RunEffects" /\ lastOp.arg = "/profile" /\ Truthy(lastOp.prevStore)) =>
            /\ isAuthenticated
            /\ accessToken = lastOp.prevStore
            /\ localStorage = lastOp.prevStore
            /\ location.path = "/"
            /\ mounted = "Home"
            /\ agg = NoAgg

C21_Witness ==
    /\ lastOp.op = "RunEffects"
    /\ lastOp.arg = "/profile"
    /\ lastOp.prevStore = "t2"
    /\ isAuthenticated
    /\ accessToken = "t2"
    /\ location.path = "/"
    /\ mounted = "Home"

====
